---------------------------- MODULE Spec2Model ----------------------------
(***************************************************************************)
(* Model of the Study Planner backend (src/app.py): four tables (Task,     *)
(* Exam, Course, Attendance) behind a Flask/SQLAlchemy REST API.  Each     *)
(* route handler is one action; the attendance toggle is also modelled at  *)
(* the granularity of its lookup and its write (SpecRace).                 *)
(*                                                                         *)
(* Text is a sequence of one-character strings, so that parsing and        *)
(* formatting are computed and not assumed.  A JSON value is a record      *)
(* [t, n, s]: t its type ("str", "int", "null", or "absent" for a key the  *)
(* object does not hold), n its number, s its text.                        *)
(***************************************************************************)
EXTENDS Integers, Sequences, FiniteSets, TLC

(***************************************************************************)
(* Bounds of the model.                                                    *)
(***************************************************************************)
\* Rows the database holds at most, over the four tables.
MaxRows == 1
\* The largest id a table hands out.
MaxId == 1
\* The same, where only the requests on tasks are made (SpecTask).
MaxTasks == 2
MaxTaskId == 2
\* The same, where the requests on attendance and courses are made
\* (SpecAtt, SpecRace).
MaxAttRows == 3
MaxAttId == 2
\* The longest run of identical attendance requests that is counted.
MaxStreak == 3

(***************************************************************************)
(* JSON values and text.                                                   *)
(***************************************************************************)
JStr(s) == [t |-> "str", n |-> 0, s |-> s]
JInt(n) == [t |-> "int", n |-> n, s |-> <<>>]
JNull == [t |-> "null", n |-> 0, s |-> <<>>]
JAbsent == [t |-> "absent", n |-> 0, s |-> <<>>]

Digits == {"0", "1", "2", "3", "4", "5", "6", "7", "8", "9"}

DigitVal(c) ==
    CASE c = "0" -> 0 [] c = "1" -> 1 [] c = "2" -> 2 [] c = "3" -> 3
      [] c = "4" -> 4 [] c = "5" -> 5 [] c = "6" -> 6 [] c = "7" -> 7
      [] c = "8" -> 8 [] c = "9" -> 9 [] OTHER -> 0

DigitChar(n) ==
    CASE n = 0 -> "0" [] n = 1 -> "1" [] n = 2 -> "2" [] n = 3 -> "3"
      [] n = 4 -> "4" [] n = 5 -> "5" [] n = 6 -> "6" [] n = 7 -> "7"
      [] n = 8 -> "8" [] OTHER -> "9"

AllDigits(s) == \A i \in 1..Len(s) : s[i] \in Digits

RECURSIVE DecVal(_)
DecVal(s) ==
    IF s = <<>> THEN 0
    ELSE 10 * DecVal(SubSeq(s, 1, Len(s) - 1)) + DigitVal(s[Len(s)])

(***************************************************************************)
(* datetime.strptime(s, '%Y-%m-%d').date() and date.strftime('%Y-%m-%d').  *)
(* The format compiles to the regular expression                           *)
(*   \d\d\d\d - (1[0-2]|0[1-9]|[1-9]) - (3[01]|[12]\d|0[1-9]|[1-9]| [1-9]) *)
(* which must match the whole text; the date must then exist.              *)
(***************************************************************************)
IsLeap(y) == (y % 4 = 0 /\ y % 100 # 0) \/ y % 400 = 0

DaysInMonth(y, m) ==
    IF m = 2 THEN (IF IsLeap(y) THEN 29 ELSE 28)
    ELSE IF m \in {4, 6, 9, 11} THEN 30 ELSE 31

MonthText(s) ==
    \/ Len(s) = 1 /\ s[1] \in Digits \ {"0"}
    \/ Len(s) = 2 /\ s[1] = "1" /\ s[2] \in {"0", "1", "2"}
    \/ Len(s) = 2 /\ s[1] = "0" /\ s[2] \in Digits \ {"0"}

DayText(s) ==
    \/ Len(s) = 1 /\ s[1] \in Digits \ {"0"}
    \/ Len(s) = 2 /\ s[1] = "3" /\ s[2] \in {"0", "1"}
    \/ Len(s) = 2 /\ s[1] \in {"1", "2"} /\ s[2] \in Digits
    \/ Len(s) = 2 /\ s[1] = "0" /\ s[2] \in Digits \ {"0"}
    \/ Len(s) = 2 /\ s[1] = " " /\ s[2] \in Digits \ {"0"}

NoDate == [y |-> 0, m |-> 0, d |-> 0]

\* The position of the second "-" of a date text (0: none).
SecondDash(s) ==
    IF Len(s) >= 7 /\ s[7] = "-" THEN 7
    ELSE IF Len(s) >= 8 /\ s[8] = "-" THEN 8 ELSE 0

\* [err |-> "" | "ValueError" | "TypeError", date |-> [y, m, d]]
Strptime(v) ==
    IF v.t # "str" THEN [err |-> "TypeError", date |-> NoDate]
    ELSE LET s == v.s
             k == SecondDash(s)
             ys == SubSeq(s, 1, 4)
             ms == SubSeq(s, 6, k - 1)
             ds == SubSeq(s, k + 1, Len(s))
             y == DecVal(ys)
             m == DecVal(ms)
             d == DecVal(IF ds # <<>> /\ ds[1] = " " THEN Tail(ds) ELSE ds)
             shape == /\ Len(s) >= 8 /\ Len(s) <= 10
                      /\ AllDigits(ys) /\ s[5] = "-"
                      /\ k # 0 /\ MonthText(ms) /\ DayText(ds)
         IN IF shape /\ y >= 1 /\ d <= DaysInMonth(y, m)
            THEN [err |-> "", date |-> [y |-> y, m |-> m, d |-> d]]
            ELSE [err |-> "ValueError", date |-> NoDate]

Pad2(n) == <<DigitChar(n \div 10), DigitChar(n % 10)>>

\* Years of the model have four digits, where every platform pads alike.
Strftime(date) ==
    JStr(<<DigitChar(date.y \div 1000), DigitChar((date.y \div 100) % 10),
           DigitChar((date.y \div 10) % 10), DigitChar(date.y % 10)>>
         \o <<"-">> \o Pad2(date.m) \o <<"-">> \o Pad2(date.d))

(***************************************************************************)
(* int(v): an int is itself; a text is stripped of blanks, may carry a     *)
(* sign, and must then be digits (ValueError otherwise); None raises       *)
(* TypeError.                                                              *)
(***************************************************************************)
RECURSIVE LStrip(_)
LStrip(s) == IF s # <<>> /\ s[1] = " " THEN LStrip(Tail(s)) ELSE s

RECURSIVE RStrip(_)
RStrip(s) ==
    IF s # <<>> /\ s[Len(s)] = " " THEN RStrip(SubSeq(s, 1, Len(s) - 1)) ELSE s

\* [err |-> "" | "ValueError" | "TypeError", n |-> Int]
PyInt(v) ==
    IF v.t = "int" THEN [err |-> "", n |-> v.n]
    ELSE IF v.t # "str" THEN [err |-> "TypeError", n |-> 0]
    ELSE LET s == RStrip(LStrip(v.s))
             signed == s # <<>> /\ s[1] \in {"+", "-"}
             body == IF signed THEN Tail(s) ELSE s
         IN IF body # <<>> /\ AllDigits(body)
            THEN [err |-> "",
                  n |-> IF signed /\ s[1] = "-" THEN 0 - DecVal(body)
                        ELSE DecVal(body)]
            ELSE [err |-> "ValueError", n |-> 0]


(***************************************************************************)
(* State.                                                                  *)
(*   engine      the storage engine DATABASE_URL selects                   *)
(*   task, exam, course, attendance   the tables, in storage (id) order    *)
(*   seq         PostgreSQL's id sequences, one per table                  *)
(*   session     the pending operations of the SQLAlchemy session          *)
(*   req, resp   the last request handled and its response                 *)
(*   deleted     history: the <<table, id>> pairs a DELETE has removed     *)
(*   streak      history: the run of identical attendance requests made    *)
(*               since their key had no record                             *)
(*   inflight    the attendance requests between lookup and write          *)
(***************************************************************************)
VARIABLES engine, task, exam, course, attendance, seq, session, req, resp,
          deleted, streak, inflight

tables == <<task, exam, course, attendance>>
vars == <<engine, task, exam, course, attendance, seq, session, req, resp,
          deleted, streak, inflight>>

Engines == {"sqlite", "postgresql"}
\* The two request threads of the interleaved attendance requests.
Procs == {1, 2}

\* The database as one value: the four tables and the sequences.
DB == [task |-> task, exam |-> exam, course |-> course,
       attendance |-> attendance, seq |-> seq]

Range(f) == {f[i] : i \in DOMAIN f}
Ids(tbl) == {tbl[i].id : i \in DOMAIN tbl}
MaxOf(S) == IF S = {} THEN 0 ELSE CHOOSE x \in S : \A y \in S : y <= x
TotalRows(db) ==
    Len(db.task) + Len(db.exam) + Len(db.course) + Len(db.attendance)

\* Integer primary key: SQLite hands out max(rowid) + 1 (the column is not
\* declared AUTOINCREMENT), PostgreSQL the next value of the table's sequence.
NextId(eng, db, tbl) ==
    IF eng = "sqlite" THEN MaxOf(Ids(db[tbl])) + 1 ELSE db.seq[tbl] + 1

\* The columns declared nullable=False.
NotNullOK(tbl, row) ==
    CASE tbl = "task" -> row.title.t # "null"
      [] tbl = "exam" ->
            /\ row.subject.t # "null" /\ row.module_number.t # "null"
            /\ row.start_time.t # "null" /\ row.duration.t # "null"
            /\ row.seat_number.t # "null" /\ row.room_number.t # "null"
      [] tbl = "course" ->
            /\ row.subject_name.t # "null" /\ row.subject_code.t # "null"
            /\ row.room_number.t # "null" /\ row.slots.t # "null"
            /\ row.credits.t # "null"
      [] OTHER -> row.course_id.t # "null" /\ row.slot.t # "null"

\* Attendance.course_id is a ForeignKey('course.id'): PostgreSQL enforces it,
\* SQLite (foreign_keys pragma off) does not.
ForeignKeyOK(eng, db, op) ==
    \/ eng = "sqlite"
    \/ /\ op.op = "add" /\ op.tbl = "attendance"
          => op.row.course_id.n \in Ids(db.course)
       /\ op.op = "delete" /\ op.tbl = "course"
          => \A i \in DOMAIN db.attendance :
                db.attendance[i].course_id.n # op.row.id

(***************************************************************************)
(* The SQLAlchemy session: add and delete queue an operation, commit       *)
(* flushes the queue in one transaction, rollback and the teardown of the  *)
(* request empty it.                                                       *)
(***************************************************************************)
SessionAdd(sess, tbl, row) ==
    Append(sess, [op |-> "add", tbl |-> tbl, row |-> row])
SessionDelete(sess, tbl, row) ==
    Append(sess, [op |-> "delete", tbl |-> tbl, row |-> row])
SessionRollback(sess) == <<>>
SessionRemove(sess) == <<>>

\* One queued operation on the database; a DELETE that matches no row is a
\* warning, not an error.
FlushOne(eng, db, op) ==
    IF op.op = "add"
    THEN LET id == NextId(eng, db, op.tbl)
             row == [op.row EXCEPT !.id = id]
         IN [db EXCEPT ![op.tbl] = Append(@, row),
                       !.seq[op.tbl] =
                           IF eng = "sqlite" THEN @ ELSE id]
    ELSE [db EXCEPT ![op.tbl] =
              SelectSeq(@, LAMBDA r : r.id # op.row.id)]

RECURSIVE Flush(_, _, _)
\* [err |-> BOOLEAN, db |-> ...]: the queue applied in order, or the first
\* integrity error.
Flush(eng, db, sess) ==
    IF sess = <<>> THEN [err |-> FALSE, db |-> db]
    ELSE LET op == Head(sess)
         IN IF /\ (op.op = "add" => NotNullOK(op.tbl, op.row))
               /\ ForeignKeyOK(eng, db, op)
            THEN Flush(eng, FlushOne(eng, db, op), Tail(sess))
            ELSE [err |-> TRUE, db |-> db]

\* A failed commit writes nothing and leaves the session broken, its
\* operations still pending.
SessionCommitPartial(eng, db, sess, ok) ==
    LET r == Flush(eng, db, sess)
    IN IF r.err THEN [err |-> TRUE, db |-> db, session |-> sess]
       ELSE [err |-> ~ok, db |-> r.db, session |-> IF ok THEN <<>> ELSE sess]

\* db.session.commit(); ok is whether the storage engine accepts the
\* transaction (FALSE: an OperationalError).
SessionCommit(eng, db, sess, ok) ==
    LET r == Flush(eng, db, sess)
    IN IF ok /\ ~r.err THEN [err |-> FALSE, db |-> r.db, session |-> <<>>]
       ELSE [err |-> TRUE, db |-> db, session |-> sess]

\* What a handler returns: the status, the JSON body (a sequence of
\* objects), the database and the session it leaves.
Result(status, body, db, sess) ==
    [status |-> status, body |-> body, db |-> db, session |-> sess]

(***************************************************************************)
(* Request inputs.  A JSON body is a record with every key of the object,  *)
(* a key it lacks being JAbsent; kind is "obj", "empty" (a body that is    *)
(* falsy: {}) or "absent" (no JSON body at all).                           *)
(***************************************************************************)
Txt(c) == JStr(<<c>>)
Empty == JStr(<<>>)

Date0501 == JStr(<<"2", "0", "2", "4", "-", "0", "5", "-", "0", "1">>)
Date51 == JStr(<<"2", "0", "2", "4", "-", "5", "-", "1">>)
Date0502 == JStr(<<"2", "0", "2", "4", "-", "0", "5", "-", "0", "2">>)
Date52 == JStr(<<"2", "0", "2", "4", "-", "5", "-", "2">>)
DateBad == JStr(<<"2", "0", "2", "4", "-", "1", "3", "-", "0", "1">>)

TaskBodyA ==
    [kind |-> "obj", title |-> Txt("T"), detail |-> Txt("D"),
     dueDate |-> Date0501, startTime |-> Txt("9"), endTime |-> JAbsent,
     type |-> Txt("H"), subject |-> Txt("M")]
TaskBodies ==
    { TaskBodyA,
      [TaskBodyA EXCEPT !.dueDate = Date52, !.detail = JNull,
                        !.startTime = JAbsent],
      [TaskBodyA EXCEPT !.type = JAbsent],
      [TaskBodyA EXCEPT !.dueDate = DateBad],
      [TaskBodyA EXCEPT !.title = JNull],
      [TaskBodyA EXCEPT !.kind = "empty"],
      [TaskBodyA EXCEPT !.kind = "absent"] }

\* The arguments of GET /api/tasks: no date, an empty one, dates, a bad one.
DateArgs == {JAbsent, Empty, Date0501, Date51, DateBad}

ExamBodyA ==
    [kind |-> "obj", subject |-> Txt("M"), moduleNumber |-> Txt("1"),
     examDate |-> Date0501, startTime |-> Txt("9"), duration |-> JInt(90),
     seatNumber |-> Txt("S"), roomNumber |-> Txt("R")]
ExamBodies ==
    { ExamBodyA,
      [ExamBodyA EXCEPT !.duration = JStr(<<" ", "9", "0">>),
                        !.examDate = Date51],
      [ExamBodyA EXCEPT !.seatNumber = JAbsent],
      [ExamBodyA EXCEPT !.duration = JStr(<<"x">>)],
      [ExamBodyA EXCEPT !.duration = JNull],
      [ExamBodyA EXCEPT !.roomNumber = JNull],
      [ExamBodyA EXCEPT !.kind = "empty"],
      [ExamBodyA EXCEPT !.kind = "absent"] }

CourseBodyA ==
    [kind |-> "obj", subject_name |-> Txt("A"), subject_code |-> Txt("C"),
     room_number |-> Txt("R"), slots |-> Txt("S"), credits |-> JInt(4)]
CourseBodies ==
    { CourseBodyA,
      [CourseBodyA EXCEPT !.credits = JAbsent],
      [CourseBodyA EXCEPT !.credits = JNull],
      [CourseBodyA EXCEPT !.kind = "empty"],
      [CourseBodyA EXCEPT !.kind = "absent"] }

AttBodyA ==
    [kind |-> "obj", course_id |-> JInt(1), date |-> Date0501,
     slot |-> Txt("a")]
AttBodies ==
    { AttBodyA,
      [AttBodyA EXCEPT !.date = Date51],
      [AttBodyA EXCEPT !.slot = Txt("b")],
      [AttBodyA EXCEPT !.slot = JAbsent],
      [AttBodyA EXCEPT !.date = DateBad],
      [AttBodyA EXCEPT !.kind = "empty"] }

\* The paths of GET /api/attendance/<date>.
DatePaths == {Date51, Date0502, DateBad}

\* request.get_json() / request.json: the parsed body, None for a falsy one.
\* Without a JSON body it returns None or raises (415, 400), by the version
\* of Flask: silent says which.
GetJson(body, silent) ==
    CASE body.kind = "obj" -> [raised |-> FALSE, none |-> FALSE]
      [] body.kind = "empty" -> [raised |-> FALSE, none |-> TRUE]
      [] OTHER -> [raised |-> ~silent, none |-> TRUE]

(***************************************************************************)
(* Tasks.                                                                  *)
(***************************************************************************)
TaskJson(row) ==
    [id |-> row.id, title |-> row.title, detail |-> row.detail,
     dueDate |-> Strftime(row.due_date), startTime |-> row.start_time,
     endTime |-> row.end_time, type |-> row.task_type,
     subject |-> row.subject]

\* data.get(key, default)
DictGet(v, default) == IF v.t = "absent" THEN default ELSE v

\* An except clause that tells validation errors (KeyError, ValueError,
\* TypeError) from the others, as create_exam's does.
TaskExceptTyped(exc) == IF exc = "storage" THEN 500 ELSE 400

\* create_task's only except clause: except Exception -> 500.
TaskExcept(exc) == 500

\* POST /api/tasks
create_task(body, eng, db, sess, ok, silent) ==
    LET data == GetJson(body, silent)
        due == Strptime(body.dueDate)
        new_task == [id |-> 0, title |-> body.title, detail |-> body.detail,
                     due_date |-> due.date,
                     start_time |-> DictGet(body.startTime, Empty),
                     end_time |-> DictGet(body.endTime, Empty),
                     task_type |-> body.type, subject |-> body.subject]
        c == SessionCommit(eng, db, SessionAdd(sess, "task", new_task), ok)
    IN IF data.raised
       THEN Result(TaskExcept("http"), <<>>, db, SessionRollback(sess))
       ELSE IF data.none THEN Result(400, <<>>, db, sess)
       ELSE IF \/ body.dueDate.t = "absent" \/ body.title.t = "absent"
               \/ body.detail.t = "absent" \/ body.type.t = "absent"
               \/ body.subject.t = "absent"
            THEN Result(TaskExcept("KeyError"), <<>>, db, SessionRollback(sess))
       ELSE IF due.err # ""
            THEN Result(TaskExcept(due.err), <<>>, db, SessionRollback(sess))
       ELSE IF c.err
            THEN Result(TaskExcept("storage"), <<>>, c.db,
                        SessionRollback(c.session))
       ELSE Result(201, <<TaskJson(c.db.task[Len(c.db.task)])>>, c.db,
                   c.session)

\* Task.query.filter_by(due_date=...).all() returning every task.
FilterByDueDateAll(tbl, date) == tbl

\* Task.query.filter_by(due_date=filter_date).all()
FilterByDueDate(tbl, date) == SelectSeq(tbl, LAMBDA r : r.due_date = date)

\* GET /api/tasks?date=...
get_tasks(arg, db, sess) ==
    LET given == arg.t = "str" /\ arg.s # <<>>
        filter_date == Strptime(arg)
    IN IF given /\ filter_date.err # "" THEN Result(400, <<>>, db, sess)
       ELSE LET tasks == IF given
                         THEN FilterByDueDate(db.task, filter_date.date)
                         ELSE db.task
            IN Result(200, [i \in DOMAIN tasks |-> TaskJson(tasks[i])],
                      db, sess)

\* Model.query.get_or_404(id): the row, or none.
Get(tbl, id) == SelectSeq(tbl, LAMBDA r : r.id = id)

\* DELETE /api/tasks/<id>: NotFound reaches the 404 handler, a failed commit
\* the 500 handler, which rolls back.
delete_task(id, eng, db, sess, ok) ==
    LET found == Get(db.task, id)
        c == SessionCommit(eng, db, SessionDelete(sess, "task", found[1]), ok)
    IN IF found = <<>> THEN Result(404, <<>>, db, sess)
       ELSE IF c.err THEN Result(500, <<>>, c.db, SessionRollback(c.session))
       ELSE Result(200, <<>>, c.db, c.session)

(***************************************************************************)
(* Exams.                                                                  *)
(***************************************************************************)
ExamJson(row) ==
    [id |-> row.id, subject |-> row.subject,
     moduleNumber |-> row.module_number,
     examDate |-> Strftime(row.exam_date), startTime |-> row.start_time,
     duration |-> row.duration, seatNumber |-> row.seat_number,
     roomNumber |-> row.room_number]

\* duration stored as sent.
ExamDurationRaw(v) == [err |-> "", n |-> v.n, raw |-> v]

\* duration=int(data['duration'])
ExamDuration(v) == [err |-> PyInt(v).err, n |-> PyInt(v).n,
                    raw |-> JInt(PyInt(v).n)]

\* POST /api/exams.  request.json is read for the log line before the try:
\* what it raises is answered as it stands (415).  ValueError is answered
\* 400 without a rollback, any other exception 500 after one.
create_exam(body, eng, db, sess, ok, silent) ==
    LET data == GetJson(body, silent)
        exam_date == Strptime(body.examDate)
        dur == ExamDuration(body.duration)
        new_exam == [id |-> 0, subject |-> body.subject,
                     module_number |-> body.moduleNumber,
                     exam_date |-> exam_date.date,
                     start_time |-> body.startTime, duration |-> dur.raw,
                     seat_number |-> body.seatNumber,
                     room_number |-> body.roomNumber]
        c == SessionCommit(eng, db, SessionAdd(sess, "exam", new_exam), ok)
        Raise(err) == IF err = "ValueError" THEN Result(400, <<>>, db, sess)
                      ELSE Result(500, <<>>, db, SessionRollback(sess))
    IN IF data.raised THEN Result(415, <<>>, db, sess)
       ELSE IF data.none THEN Raise("ValueError")
       ELSE IF \/ body.subject.t = "absent" \/ body.moduleNumber.t = "absent"
               \/ body.examDate.t = "absent" \/ body.startTime.t = "absent"
               \/ body.duration.t = "absent" \/ body.seatNumber.t = "absent"
               \/ body.roomNumber.t = "absent"
            THEN Raise("ValueError")
       ELSE IF exam_date.err # "" THEN Raise(exam_date.err)
       ELSE IF dur.err # "" THEN Raise(dur.err)
       ELSE IF c.err THEN Result(500, <<>>, c.db, SessionRollback(c.session))
       ELSE Result(201, <<ExamJson(c.db.exam[Len(c.db.exam)])>>, c.db,
                   c.session)

\* GET /api/exams
get_exams(db, sess) ==
    Result(200, [i \in DOMAIN db.exam |-> ExamJson(db.exam[i])], db, sess)

\* DELETE /api/exams/<id>.  get_or_404 raises NotFound inside the try, and
\* except Exception answers it 500.
delete_exam(id, eng, db, sess, ok) ==
    LET found == Get(db.exam, id)
        c == SessionCommit(eng, db, SessionDelete(sess, "exam", found[1]), ok)
    IN IF found = <<>> THEN Result(500, <<>>, db, SessionRollback(sess))
       ELSE IF c.err THEN Result(500, <<>>, c.db, SessionRollback(c.session))
       ELSE Result(200, <<>>, c.db, c.session)

(***************************************************************************)
(* Courses.                                                                *)
(***************************************************************************)
\* Course.to_dict
to_dict(row) ==
    [id |-> row.id, subject_name |-> row.subject_name,
     subject_code |-> row.subject_code, room_number |-> row.room_number,
     slots |-> row.slots, credits |-> row.credits]

\* GET /api/courses
get_courses(db, sess) ==
    Result(200, [i \in DOMAIN db.course |-> to_dict(db.course[i])], db, sess)

\* POST /api/courses
create_course(body, eng, db, sess, ok, silent) ==
    LET data == GetJson(body, silent)
        new == [id |-> 0, subject_name |-> body.subject_name,
                subject_code |-> body.subject_code,
                room_number |-> body.room_number, slots |-> body.slots,
                credits |-> body.credits]
        c == SessionCommit(eng, db, SessionAdd(sess, "course", new), ok)
    IN IF data.raised THEN Result(500, <<>>, db, SessionRollback(sess))
       ELSE IF data.none THEN Result(400, <<>>, db, sess)
       ELSE IF \/ body.subject_name.t = "absent"
               \/ body.subject_code.t = "absent"
               \/ body.room_number.t = "absent" \/ body.slots.t = "absent"
               \/ body.credits.t = "absent"
            THEN Result(400, <<>>, db, sess)
       ELSE IF c.err THEN Result(500, <<>>, c.db, SessionRollback(c.session))
       ELSE Result(201, <<to_dict(c.db.course[Len(c.db.course)])>>, c.db,
                   c.session)

\* DELETE /api/courses/<id>: as delete_exam, and 204 on success.
delete_course(id, eng, db, sess, ok) ==
    LET found == Get(db.course, id)
        c == SessionCommit(eng, db, SessionDelete(sess, "course", found[1]), ok)
    IN IF found = <<>> THEN Result(500, <<>>, db, SessionRollback(sess))
       ELSE IF c.err THEN Result(500, <<>>, c.db, SessionRollback(c.session))
       ELSE Result(204, <<>>, c.db, c.session)

(***************************************************************************)
(* Attendance.                                                             *)
(***************************************************************************)
AttJson(row) ==
    [course_id |-> row.course_id, slot |-> row.slot,
     date |-> Strftime(row.date)]

\* The rows of a key.
AttMatching(tbl, course_id, date, slot) ==
    SelectSeq(tbl, LAMBDA r :
        r.course_id = course_id /\ r.date = date /\ r.slot = slot)

\* A lookup that never finds the record.
AttFirstNone(tbl, course_id, date, slot) == <<>>

\* Attendance.query.filter_by(course_id=, date=, slot=).first(): the first
\* matching row, or none.
AttFirst(tbl, course_id, date, slot) ==
    LET found == AttMatching(tbl, course_id, date, slot)
    IN IF found = <<>> THEN <<>> ELSE <<found[1]>>

\* What mark_attendance answers before it looks the record up: 0 to go on.
AttValidate(body, silent) ==
    LET data == GetJson(body, silent)
    IN IF data.raised THEN 500
       ELSE IF data.none THEN 400
       ELSE IF \/ body.course_id.t = "absent" \/ body.date.t = "absent"
               \/ body.slot.t = "absent"
            THEN 400
       ELSE IF Strptime(body.date).err # "" THEN 500
       ELSE 0

\* The write that always inserts.
AttWriteInsert(existing, body, eng, db, sess, ok) ==
    LET new == [id |-> 0, course_id |-> body.course_id,
                date |-> Strptime(body.date).date, slot |-> body.slot]
        c == SessionCommit(eng, db, SessionAdd(sess, "attendance", new), ok)
    IN IF c.err THEN Result(500, <<>>, c.db, SessionRollback(c.session))
       ELSE Result(201, <<>>, c.db, c.session)

\* The write with its condition inverted: a record found is left alone and
\* one is "unmarked" where none was found.
AttWriteInverted(existing, body, eng, db, sess, ok) ==
    IF existing # <<>> THEN AttWriteInsert(existing, body, eng, db, sess, ok)
    ELSE Result(200, <<>>, db, sess)

\* mark_attendance from its if: the record found is deleted (200), or a new
\* one is inserted (201); an exception rolls back (500).
AttWrite(existing, body, eng, db, sess, ok) ==
    LET new == [id |-> 0, course_id |-> body.course_id,
                date |-> Strptime(body.date).date, slot |-> body.slot]
        c == SessionCommit(eng, db,
                 IF existing # <<>>
                 THEN SessionDelete(sess, "attendance", existing[1])
                 ELSE SessionAdd(sess, "attendance", new), ok)
    IN IF c.err THEN Result(500, <<>>, c.db, SessionRollback(c.session))
       ELSE Result(IF existing # <<>> THEN 200 ELSE 201, <<>>, c.db,
                   c.session)

\* POST /api/attendance, handled to completion.
mark_attendance(body, eng, db, sess, ok, silent) ==
    LET early == AttValidate(body, silent)
    IN IF early # 0
       THEN Result(early, <<>>, db,
                   IF early = 500 THEN SessionRollback(sess) ELSE sess)
       ELSE AttWrite(AttFirst(db.attendance, body.course_id,
                              Strptime(body.date).date, body.slot),
                     body, eng, db, sess, ok)

\* GET /api/attendance/<date>
get_attendance(path, db, sess) ==
    LET query_date == Strptime(path)
    IN IF query_date.err # "" THEN Result(500, <<>>, db, sess)
       ELSE LET attendances ==
                    SelectSeq(db.attendance,
                              LAMBDA r : r.date = query_date.date)
            IN Result(200,
                      [i \in DOMAIN attendances |-> AttJson(attendances[i])],
                      db, sess)

(***************************************************************************)
(* The state machine.                                                      *)
(***************************************************************************)
NoStreak == [n |-> 0, key |-> <<JAbsent, NoDate, JAbsent>>]
Idle == [pc |-> "idle", body |-> [kind |-> "none"], existing |-> <<>>]

\* init_db / db.create_all(): empty tables; the engine is DATABASE_URL's,
\* SQLite by default.
Init ==
    /\ engine \in Engines
    /\ task = <<>> /\ exam = <<>> /\ course = <<>> /\ attendance = <<>>
    /\ seq = [task |-> 0, exam |-> 0, course |-> 0, attendance |-> 0]
    /\ session = <<>>
    /\ req = [op |-> "none", input |-> 0, ok |-> TRUE]
    /\ resp = [status |-> 0, body |-> <<>>]
    /\ deleted = {}
    /\ streak = NoStreak
    /\ inflight = [p \in Procs |-> Idle]

\* A request handled to completion: the handler's result is stored and
\* answered, and the teardown of the request removes the session.
Respond(op, input, ok, r) ==
    /\ task' = r.db.task /\ exam' = r.db.exam /\ course' = r.db.course
    /\ attendance' = r.db.attendance /\ seq' = r.db.seq
    /\ session' = SessionRemove(r.session)
    /\ req' = [op |-> op, input |-> input, ok |-> ok]
    /\ resp' = [status |-> r.status, body |-> r.body]
    /\ UNCHANGED engine

\* The inputs of a handler that are not the request's own, ok (the storage
\* engine accepts the transaction) and silent (get_json returns None for a
\* missing body), are enumerated only where they change the outcome: r is
\* the result, rOk the result with ok, rSilent the result with silent.
Matters(ok, silent, r, rOk, rSilent) ==
    /\ ~ok => r # rOk
    /\ ~silent => r # rSilent

\* GET /
Home == Respond("home", 0, TRUE, Result(200, <<>>, DB, session))

CreateTask ==
    \E body \in TaskBodies, ok \in BOOLEAN, silent \in BOOLEAN :
        /\ Matters(ok, silent,
               create_task(body, engine, DB, session, ok, silent),
               create_task(body, engine, DB, session, TRUE, silent),
               create_task(body, engine, DB, session, ok, TRUE))
        /\ Respond("create_task", body, ok,
                create_task(body, engine, DB, session, ok, silent))

GetTasks ==
    \E arg \in DateArgs :
        Respond("get_tasks", arg, TRUE, get_tasks(arg, DB, session))

DeleteTask ==
    \E id \in 1..MaxId, ok \in BOOLEAN :
        /\ Matters(ok, TRUE,
               delete_task(id, engine, DB, session, ok),
               delete_task(id, engine, DB, session, TRUE),
               delete_task(id, engine, DB, session, ok))
        /\ Respond("delete_task", id, ok,
                delete_task(id, engine, DB, session, ok))

CreateExam ==
    \E body \in ExamBodies, ok \in BOOLEAN, silent \in BOOLEAN :
        /\ Matters(ok, silent,
               create_exam(body, engine, DB, session, ok, silent),
               create_exam(body, engine, DB, session, TRUE, silent),
               create_exam(body, engine, DB, session, ok, TRUE))
        /\ Respond("create_exam", body, ok,
                create_exam(body, engine, DB, session, ok, silent))

GetExams == Respond("get_exams", 0, TRUE, get_exams(DB, session))

DeleteExam ==
    \E id \in 1..MaxId, ok \in BOOLEAN :
        /\ Matters(ok, TRUE,
               delete_exam(id, engine, DB, session, ok),
               delete_exam(id, engine, DB, session, TRUE),
               delete_exam(id, engine, DB, session, ok))
        /\ Respond("delete_exam", id, ok,
                delete_exam(id, engine, DB, session, ok))

GetCourses == Respond("get_courses", 0, TRUE, get_courses(DB, session))

CreateCourse ==
    \E body \in CourseBodies, ok \in BOOLEAN, silent \in BOOLEAN :
        /\ Matters(ok, silent,
               create_course(body, engine, DB, session, ok, silent),
               create_course(body, engine, DB, session, TRUE, silent),
               create_course(body, engine, DB, session, ok, TRUE))
        /\ Respond("create_course", body, ok,
                create_course(body, engine, DB, session, ok, silent))

DeleteCourse ==
    \E id \in 1..MaxId, ok \in BOOLEAN :
        /\ Matters(ok, TRUE,
               delete_course(id, engine, DB, session, ok),
               delete_course(id, engine, DB, session, TRUE),
               delete_course(id, engine, DB, session, ok))
        /\ Respond("delete_course", id, ok,
                delete_course(id, engine, DB, session, ok))

MarkAttendance ==
    \E body \in AttBodies, ok \in BOOLEAN, silent \in BOOLEAN :
        /\ Matters(ok, silent,
               mark_attendance(body, engine, DB, session, ok, silent),
               mark_attendance(body, engine, DB, session, TRUE, silent),
               mark_attendance(body, engine, DB, session, ok, TRUE))
        /\ Respond("mark_attendance", body, ok,
                mark_attendance(body, engine, DB, session, ok, silent))

GetAttendance ==
    \E path \in DatePaths :
        Respond("get_attendance", path, TRUE,
                get_attendance(path, DB, session))

(***************************************************************************)
(* The attendance toggle at the granularity of its lookup and its write:   *)
(* a request thread looks the record up, and acts on what it found later,  *)
(* in a session of its own.                                                *)
(***************************************************************************)
AttLookup(p) ==
    /\ inflight[p].pc = "idle"
    /\ \E body \in AttBodies :
          /\ AttValidate(body, TRUE) = 0
          /\ inflight' = [inflight EXCEPT ![p] =
                 [pc |-> "looked", body |-> body,
                  existing |-> AttFirst(attendance, body.course_id,
                                        Strptime(body.date).date, body.slot)]]
    /\ UNCHANGED <<engine, task, exam, course, attendance, seq, session,
                   req, resp>>

AttCommit(p) ==
    /\ inflight[p].pc = "looked"
    /\ \E ok \in BOOLEAN :
          LET r == AttWrite(inflight[p].existing, inflight[p].body, engine,
                            DB, <<>>, ok)
          IN /\ Respond("mark_attendance", inflight[p].body, ok,
                        [r EXCEPT !.session = session])
             /\ inflight' = [inflight EXCEPT ![p] = Idle]

(***************************************************************************)
(* History.                                                                *)
(***************************************************************************)
Deletes == {"delete_task", "delete_exam", "delete_course"}
TableOf(op) ==
    CASE op \in {"create_task", "get_tasks", "delete_task"} -> "task"
      [] op \in {"create_exam", "get_exams", "delete_exam"} -> "exam"
      [] op \in {"create_course", "get_courses", "delete_course"} -> "course"
      [] OTHER -> "attendance"

\* deleted gains the id of every DELETE that succeeds.
RecordDeleted ==
    deleted' = IF req'.op \in Deletes /\ resp'.status \in {200, 204}
               THEN deleted \union {<<TableOf(req'.op), req'.input>>}
               ELSE deleted

\* The key of an attendance request that passes validation.
KeyOf(body) == <<body.course_id, Strptime(body.date).date, body.slot>>
RowKey(r) == <<r.course_id, r.date, r.slot>>
HasKey(tbl, key) == AttMatching(tbl, key[1], key[2], key[3]) # <<>>

\* streak counts the successful attendance requests with one key that
\* follow each other with no other request in between, from a state in
\* which the key had no record.
RecordStreak ==
    streak' =
        IF req'.op = "mark_attendance" /\ resp'.status \in {200, 201}
        THEN LET key == KeyOf(req'.input)
             IN IF streak.n > 0 /\ streak.n < MaxStreak /\ streak.key = key
                THEN [n |-> streak.n + 1, key |-> key]
                ELSE IF ~HasKey(attendance, key)
                     THEN [n |-> 1, key |-> key]
                     ELSE NoStreak
        ELSE NoStreak

(***************************************************************************)
(* Specifications.  Within bounds what a step may leave: the rows of the   *)
(* database and the ids handed out.                                        *)
(***************************************************************************)
Within(rows, ids) ==
    /\ TotalRows(DB)' <= rows
    /\ \A t \in {"task", "exam", "course", "attendance"} :
          /\ seq'[t] <= ids
          /\ \A i \in Ids(DB[t])' : i <= ids

Quiet == UNCHANGED <<deleted, streak, inflight>>

\* Requests handled one at a time, each to completion.
Next ==
    \/ Home /\ Within(MaxRows, MaxId) /\ Quiet
    \/ CreateTask /\ Within(MaxRows, MaxId) /\ Quiet
    \/ GetTasks /\ Within(MaxRows, MaxId) /\ Quiet
    \/ DeleteTask /\ Within(MaxRows, MaxId) /\ Quiet
    \/ CreateExam /\ Within(MaxRows, MaxId) /\ Quiet
    \/ GetExams /\ Within(MaxRows, MaxId) /\ Quiet
    \/ DeleteExam /\ Within(MaxRows, MaxId) /\ Quiet
    \/ GetCourses /\ Within(MaxRows, MaxId) /\ Quiet
    \/ CreateCourse /\ Within(MaxRows, MaxId) /\ Quiet
    \/ DeleteCourse /\ Within(MaxRows, MaxId) /\ Quiet
    \/ MarkAttendance /\ Within(MaxRows, MaxId) /\ Quiet
    \/ GetAttendance /\ Within(MaxRows, MaxId) /\ Quiet

Spec == Init /\ [][Next]_vars

\* The same requests, with the history of the ids deleted.
NextDeleted ==
    \/ CreateTask /\ Within(MaxRows, MaxId) /\ RecordDeleted
          /\ UNCHANGED <<streak, inflight>>
    \/ GetTasks /\ Within(MaxRows, MaxId) /\ RecordDeleted
          /\ UNCHANGED <<streak, inflight>>
    \/ DeleteTask /\ Within(MaxRows, MaxId) /\ RecordDeleted
          /\ UNCHANGED <<streak, inflight>>
    \/ CreateExam /\ Within(MaxRows, MaxId) /\ RecordDeleted
          /\ UNCHANGED <<streak, inflight>>
    \/ GetExams /\ Within(MaxRows, MaxId) /\ RecordDeleted
          /\ UNCHANGED <<streak, inflight>>
    \/ DeleteExam /\ Within(MaxRows, MaxId) /\ RecordDeleted
          /\ UNCHANGED <<streak, inflight>>
    \/ CreateCourse /\ Within(MaxRows, MaxId) /\ RecordDeleted
          /\ UNCHANGED <<streak, inflight>>
    \/ GetCourses /\ Within(MaxRows, MaxId) /\ RecordDeleted
          /\ UNCHANGED <<streak, inflight>>
    \/ DeleteCourse /\ Within(MaxRows, MaxId) /\ RecordDeleted
          /\ UNCHANGED <<streak, inflight>>

SpecDeleted == Init /\ [][NextDeleted]_vars

\* The requests on tasks.
NextTask ==
    \/ CreateTask /\ Within(MaxTasks, MaxTaskId) /\ Quiet
    \/ GetTasks /\ Within(MaxTasks, MaxTaskId) /\ Quiet
    \/ DeleteTask /\ Within(MaxTasks, MaxTaskId) /\ Quiet

SpecTask == Init /\ [][NextTask]_vars

\* The requests on attendance and on courses, one at a time, with the
\* history of the runs of identical attendance requests.
NextAtt ==
    \/ MarkAttendance /\ Within(MaxAttRows, MaxAttId) /\ RecordStreak
          /\ UNCHANGED <<deleted, inflight>>
    \/ GetAttendance /\ Within(MaxAttRows, MaxAttId) /\ RecordStreak
          /\ UNCHANGED <<deleted, inflight>>
    \/ CreateCourse /\ Within(MaxAttRows, MaxAttId) /\ RecordStreak
          /\ UNCHANGED <<deleted, inflight>>
    \/ DeleteCourse /\ Within(MaxAttRows, MaxAttId) /\ RecordStreak
          /\ UNCHANGED <<deleted, inflight>>

SpecAtt == Init /\ [][NextAtt]_vars

\* Attendance requests interleaved at their lookup and their write, beside
\* requests handled to completion.
NextRace ==
    \/ \E p \in Procs : AttLookup(p) /\ UNCHANGED <<deleted, streak>>
    \/ \E p \in Procs :
          AttCommit(p) /\ Within(MaxAttRows, MaxAttId)
             /\ UNCHANGED <<deleted, streak>>
    \/ CreateCourse /\ Within(MaxAttRows, MaxAttId) /\ Quiet

SpecRace == Init /\ [][NextRace]_vars

\* The same, beside attendance requests handled to completion.
NextRaceSeq ==
    \/ NextRace
    \/ MarkAttendance /\ Within(MaxAttRows, MaxAttId) /\ Quiet

SpecRaceSeq == Init /\ [][NextRaceSeq]_vars

(***************************************************************************)
(* Properties.                                                             *)
(***************************************************************************)
Creates == {"create_task", "create_exam", "create_course"}
Gets == {"get_tasks", "get_exams", "get_courses"}
Mutating == Creates \union Deletes \union {"mark_attendance"}

\* An attendance request that is well formed, references a course where the
\* engine enforces the reference, and meets a working storage engine.
ValidAtt(body, ok) ==
    /\ AttValidate(body, TRUE) = 0
    /\ ok
    /\ engine = "sqlite" \/ body.course_id.n \in Ids(course)

\* C1: from a state in which an attendance key has no record, after n
\* successful POST /api/attendance requests with that key and no other
\* request in between, the key has a record exactly if n is odd (absent
\* again after two, present after three).
C1_ToggleParity ==
    streak.n > 0 => (HasKey(attendance, streak.key) <=> streak.n % 2 = 1)

C1_Witness == streak.n = 3 /\ HasKey(attendance, streak.key)

\* C2: a DELETE of an id its table does not hold is answered 404, for
\* tasks, exams and courses alike, and leaves the tables unchanged.
C2_DeleteMissingIs404 ==
    [][(req'.op \in Deletes /\ req'.input \notin Ids(DB[TableOf(req'.op)]))
          => (resp'.status = 404 /\ tables' = tables)]_vars

\* C3: once a DELETE of an id has succeeded, no later GET listing of that
\* resource holds a record with that id.
C3_DeletedIdNeverListed ==
    (req.op \in Gets /\ resp.status = 200)
       => \A i \in DOMAIN resp.body :
             <<TableOf(req.op), resp.body[i].id>> \notin deleted

\* What GET returns for a resource in the current state.
Listing(op) ==
    CASE op = "create_task" -> get_tasks(JAbsent, DB, session).body
      [] op = "create_exam" -> get_exams(DB, session).body
      [] OTHER -> get_courses(DB, session).body

\* The business fields a created record must show, as the payload sent them.
SentFields(op, body, rec) ==
    CASE op = "create_task" ->
            /\ rec.title = body.title /\ rec.detail = body.detail
            /\ rec.dueDate = body.dueDate
            /\ body.startTime.t # "absent" => rec.startTime = body.startTime
            /\ body.endTime.t # "absent" => rec.endTime = body.endTime
            /\ rec.type = body.type /\ rec.subject = body.subject
      [] op = "create_exam" ->
            /\ rec.subject = body.subject
            /\ rec.moduleNumber = body.moduleNumber
            /\ rec.examDate = body.examDate
            /\ rec.startTime = body.startTime
            /\ rec.duration = body.duration
            /\ rec.seatNumber = body.seatNumber
            /\ rec.roomNumber = body.roomNumber
      [] OTHER ->
            /\ rec.subject_name = body.subject_name
            /\ rec.subject_code = body.subject_code
            /\ rec.room_number = body.room_number
            /\ rec.slots = body.slots /\ rec.credits = body.credits

\* The same, with the dates as strftime renders the parsed date, the
\* duration as the integer int() makes of it, and '' for a start or end
\* time that was not sent.
NormalisedFields(op, body, rec) ==
    CASE op = "create_task" ->
            /\ rec.title = body.title /\ rec.detail = body.detail
            /\ rec.dueDate = Strftime(Strptime(body.dueDate).date)
            /\ rec.startTime =
                  IF body.startTime.t = "absent" THEN Empty
                  ELSE body.startTime
            /\ rec.endTime =
                  IF body.endTime.t = "absent" THEN Empty ELSE body.endTime
            /\ rec.type = body.type /\ rec.subject = body.subject
      [] op = "create_exam" ->
            /\ rec.subject = body.subject
            /\ rec.moduleNumber = body.moduleNumber
            /\ rec.examDate = Strftime(Strptime(body.examDate).date)
            /\ rec.startTime = body.startTime
            /\ rec.duration = JInt(PyInt(body.duration).n)
            /\ rec.seatNumber = body.seatNumber
            /\ rec.roomNumber = body.roomNumber
      [] OTHER ->
            /\ rec.subject_name = body.subject_name
            /\ rec.subject_code = body.subject_code
            /\ rec.room_number = body.room_number
            /\ rec.slots = body.slots /\ rec.credits = body.credits

\* C4 as claimed: right after a successful POST of a task, exam or course,
\* GET returns a record with the id the POST assigned whose every business
\* field is identical to the value sent.
C4_RoundTripIdentical ==
    (req.op \in Creates /\ resp.status = 201)
       => \E rec \in Range(Listing(req.op)) :
             /\ rec.id = resp.body[1].id
             /\ SentFields(req.op, req.input, rec)

\* C4 as amended: right after a successful POST of a task, exam or course,
\* GET returns exactly one record with the id the POST assigned; it is the
\* record the POST answered, and its fields are those sent, except that a
\* date comes back zero-padded (the parsed date rendered as YYYY-MM-DD), the
\* exam duration comes back as the integer int() makes of the value sent,
\* and a task's start or end time that was not sent comes back as ''.
C4_RoundTripNormalised ==
    (req.op \in Creates /\ resp.status = 201)
       => LET same == {rec \in Range(Listing(req.op)) :
                            rec.id = resp.body[1].id}
          IN /\ same = {resp.body[1]}
             /\ NormalisedFields(req.op, req.input, resp.body[1])

C4_Witness ==
    /\ req.op = "create_exam" /\ resp.status = 201
    /\ req.input.duration.t = "str"
    /\ req.input.examDate # Strftime(Strptime(req.input.examDate).date)

\* C5: with requests handled one at a time, from an empty attendance table,
\* no two attendance records ever share (course_id, date, slot).
C5_OnePerKey ==
    \A i, j \in DOMAIN attendance :
        i # j => RowKey(attendance[i]) # RowKey(attendance[j])

C5_Witness ==
    /\ Len(attendance) = 2 /\ course = <<>>
    /\ req.op = "mark_attendance" /\ resp.status = 201

\* C6: an attendance request that found no record for its key inserts one
\* and answers 201 when it comes to write, whatever has been written since
\* its lookup: of two interleaved requests with one key that both found
\* none, both insert.
C6_WriteTrustsLookup ==
    [][\A p \in Procs :
          ( /\ inflight[p].pc = "looked" /\ inflight'[p].pc = "idle"
            /\ inflight[p].existing = <<>>
            /\ ValidAtt(inflight[p].body, req'.ok) )
          => /\ resp'.status = 201
             /\ Len(AttMatching(attendance', inflight[p].body.course_id,
                                Strptime(inflight[p].body.date).date,
                                inflight[p].body.slot))
                = Len(AttMatching(attendance, inflight[p].body.course_id,
                                  Strptime(inflight[p].body.date).date,
                                  inflight[p].body.slot)) + 1]_vars

\* Two records for one key, the second insert just answered 201.
C6_Witness ==
    /\ \E i, j \in DOMAIN attendance :
          /\ i # j
          /\ RowKey(attendance[i]) = RowKey(attendance[j])
    /\ req.op = "mark_attendance" /\ resp.status = 201
    /\ \A p \in Procs : inflight[p].pc = "idle"

\* C7: a mutating request that ends with an error status leaves the four
\* tables as they were and nothing pending in the session for a later
\* request to commit.
C7_ErrorChangesNothing ==
    [][(req'.op \in Mutating /\ resp'.status >= 400)
          => (tables' = tables /\ session' = <<>>)]_vars

\* A request whose commit, a row pending, was refused by the storage engine.
C7_Witness ==
    /\ req.op \in Creates /\ ~req.ok /\ resp.status = 500
    /\ req.input.kind = "obj"

\* C8 as claimed: POST /api/tasks answers 201 or 500, never 400.
C8_TaskCreateOnly201Or500 ==
    req.op = "create_task" => resp.status \in {201, 500}

\* C8 as amended: POST /api/tasks answers 201, 400 or 500.  It answers 400
\* only to a request with no JSON body or an empty one, and always to an
\* empty one; every failure of a request that carries a JSON object (a
\* missing key, a dueDate that does not parse, a storage failure) is
\* answered 500.
C8_TaskCreateStatus ==
    req.op = "create_task"
       => /\ resp.status \in {201, 400, 500}
          /\ resp.status = 400 => req.input.kind \in {"empty", "absent"}
          /\ req.input.kind = "empty" => resp.status = 400
          /\ (req.input.kind = "obj" /\ resp.status # 201)
                => resp.status = 500

C8_Witness ==
    /\ req.op = "create_task" /\ resp.status = 500
    /\ req.input.kind = "obj" /\ req.input.type.t = "absent"

\* C9: a valid POST /api/attendance handled to completion answers 201 and
\* adds exactly one record when its key has none, and answers 200 and
\* leaves GET /api/attendance/<date> without a record of the key when it
\* has at least one; records of other keys and the other tables are
\* unchanged.
C9_ToggleOutcome ==
    [][( /\ req'.op = "mark_attendance" /\ inflight' = inflight
         /\ ValidAtt(req'.input, req'.ok) )
          => LET key == KeyOf(req'.input)
                 Others(tbl) == SelectSeq(tbl, LAMBDA r : RowKey(r) # key)
                 listed ==
                     get_attendance(req'.input.date, DB', session').body
             IN /\ IF ~HasKey(attendance, key)
                   THEN /\ resp'.status = 201
                        /\ Len(AttMatching(attendance', key[1], key[2],
                                           key[3])) = 1
                   ELSE /\ resp'.status = 200
                        /\ \A i \in DOMAIN listed :
                              ~( /\ listed[i].course_id = key[1]
                                 /\ listed[i].slot = key[3] )
                /\ Others(attendance') = Others(attendance)
                /\ task' = task /\ exam' = exam /\ course' = course]_vars

\* C10: GET /api/tasks?date=d answers with exactly the stored tasks whose
\* due date is d, in table order; without a date it answers with every
\* stored task; it changes no table.
C10_TaskFilter ==
    [][req'.op = "get_tasks"
          => LET arg == req'.input
                 d == Strptime(arg)
                 ids == [i \in DOMAIN resp'.body |-> resp'.body[i].id]
                 Expect(tbl) == [i \in DOMAIN tbl |-> tbl[i].id]
             IN /\ tables' = tables
                /\ (arg.t = "absent" \/ arg = Empty)
                      => /\ resp'.status = 200
                         /\ ids = Expect(task)
                /\ (arg # Empty /\ d.err = "")
                      => /\ resp'.status = 200
                         /\ ids = Expect(SelectSeq(task,
                                     LAMBDA r : Strftime(r.due_date)
                                                = Strftime(d.date)))
                         /\ \A i \in DOMAIN resp'.body :
                               resp'.body[i].dueDate = Strftime(d.date)]_vars

\* A filter that keeps one of two stored tasks.
C10_Witness ==
    /\ req.op = "get_tasks" /\ req.input = Date51
    /\ Len(task) = 2 /\ Len(resp.body) = 1

=============================================================================
